---- MODULE Spec2Model ----
(***************************************************************************)
(* The Api class of nestgram (classes/Api.ts) and its use of the process   *)
(* wide media cache: payload construction, the remote call and the        *)
(* write-back of issued file identifiers.                                  *)
(***************************************************************************)
EXTENDS Integers, Sequences, FiniteSets, TLC

(***************************************************************************)
(* Bounds of the model.                                                    *)
(***************************************************************************)
\* number of distinct local media sources (paths / buffers)
NumFiles == 2
\* number of distinct file identifiers the remote side can issue
NumIds == 2
\* number of top-level calls that can be in flight at the same time
MaxCalls == 2
\* largest media group handed to sendMediaGroup
MaxGroup == 2
\* largest number of sizes in the photo field of a message
MaxSizes == 2

(***************************************************************************)
(* JavaScript values.  Every value carries its runtime type in t so that   *)
(* `typeof x`, truthiness and `a || b` are computed as the runtime does.   *)
(***************************************************************************)
Undefined == [t |-> "undefined"]
Null == [t |-> "null"]
Str(s) == [t |-> "string", v |-> s]
Num(n) == [t |-> "number", v |-> n]
Bool(b) == [t |-> "boolean", v |-> b]
\* a Buffer holding the bytes named d
Buf(d) == [t |-> "buffer", v |-> d]
\* an array; v is the sequence of its elements
Arr(s) == [t |-> "array", v |-> s]
\* a plain object; v is the sequence of its [key, value] properties in
\* insertion order, the order Object.keys reports
Obj(s) == [t |-> "plain", v |-> s]

\* typeof x
TypeOf(x) ==
  IF x.t \in {"undefined", "string", "number", "boolean"} THEN x.t ELSE "object"

\* the truthiness of x, as `if (x)`, `!x` and `x || y` see it
Truthy(x) ==
  CASE x.t = "undefined" -> FALSE
    [] x.t = "null" -> FALSE
    [] x.t = "boolean" -> x.v
    [] x.t = "number" -> x.v # 0
    [] x.t = "string" -> x.v # ""
    [] OTHER -> TRUE

\* a || b
Or(a, b) == IF Truthy(a) THEN a ELSE b

\* JSON.stringify(x): a string, the JSON text of x
JSONstringify(x) == [t |-> "string", json |-> x]

\* obj[key] = value on a plain object: an existing property keeps its place
SetProp(obj, key, value) ==
  IF \E i \in 1..Len(obj.v) : obj.v[i].key = key
  THEN Obj([i \in 1..Len(obj.v) |->
              IF obj.v[i].key = key THEN [key |-> key, value |-> value] ELSE obj.v[i]])
  ELSE Obj(Append(obj.v, [key |-> key, value |-> value]))

\* { ...obj, ...src }: the properties of src are set on obj in order; spreading
\* undefined or null adds nothing
RECURSIVE SpreadFrom(_, _, _)
SpreadFrom(obj, props, i) ==
  IF i > Len(props) THEN obj
  ELSE SpreadFrom(SetProp(obj, props[i].key, props[i].value), props, i + 1)

Spread(obj, src) == IF src.t = "plain" THEN SpreadFrom(obj, src.v, 1) ELSE obj

\* obj[key], undefined when obj has no such property
GetProp(obj, key) ==
  IF \E i \in 1..Len(obj.v) : obj.v[i].key = key
  THEN (CHOOSE p \in {obj.v[i] : i \in 1..Len(obj.v)} : p.key = key).value
  ELSE Undefined

(***************************************************************************)
(* Media objects (classes/Media): the caller builds them before any        *)
(* network activity.  media is the local source, a path string or a        *)
(* Buffer, and is the key the cache is asked for.                          *)
(***************************************************************************)
Files == 1..NumFiles

\* odd sources are paths on disk, even ones are in-memory buffers
MediaData(i) ==
  IF i % 2 = 1 THEN Str("file" \o ToString(i)) ELSE Buf("file" \o ToString(i))

PassTypeOf(i) == IF i % 2 = 1 THEN "path" ELSE "buffer"

Thumb(i) == [t |-> "object", type |-> "thumb", passType |-> PassTypeOf(i), media |-> MediaData(i)]

ThumbChoices == {Undefined} \cup {Thumb(i) : i \in Files}

MediaFileTypes ==
  {"photo", "video", "video_note", "audio", "voice", "document", "animation"}

\* the media classes that take a thumbnail
WithThumb == {"video", "video_note", "audio", "document", "animation"}

\* the media classes that carry a resolution
WithResolution == {"video", "animation"}

NewMedia(type, i, thumb) ==
  [t |-> "object", type |-> type, passType |-> PassTypeOf(i), media |-> MediaData(i),
   thumb |-> thumb,
   resolution |-> IF type \in WithResolution /\ PassTypeOf(i) = "path"
                  THEN Obj(<<[key |-> "width", value |-> Num(640)],
                             [key |-> "height", value |-> Num(480)]>>)
                  ELSE Undefined,
   options |-> IF type = "document"
               THEN Obj(<<[key |-> "caption", value |-> Str("doc")]>>)
               ELSE Undefined]

Medias(type) ==
  {NewMedia(type, i, th) : i \in Files,
                           th \in IF type \in WithThumb THEN ThumbChoices ELSE {Undefined}}

\* the file identifiers the remote side issues: non-empty strings
FileIds == {"id" \o ToString(i) : i \in 1..NumIds}

(***************************************************************************)
(* MediaCache (classes/Media/MediaCache): a map from local key to file     *)
(* identifier.                                                             *)
(***************************************************************************)
\* lookup(key): pure read
MediaCache_getMediaFileId(cache, path) ==
  IF path \in DOMAIN cache THEN Str(cache[path]) ELSE Undefined

\* store(key, identifier): inserts if key is absent, no-op otherwise
MediaCache_saveMediaFileId(cache, path, fileId) ==
  IF path \in DOMAIN cache THEN cache ELSE cache @@ (path :> fileId)

(***************************************************************************)
(* FormData: the sequence of appended parts.  A part's value is a string   *)
(* (an identifier, a scalar, a JSON text), a read stream or a buffer.      *)
(***************************************************************************)
ReadStream(path) == [t |-> "stream", v |-> path.v]

FormAppend(formData, key, value) == Append(formData, [name |-> key, value |-> value])

\* Api.appendMediaToFormData
appendMediaToFormData(formData, key, media) ==
  IF TypeOf(media) = "string" THEN FormAppend(formData, key, media)
  ELSE IF media.passType = "path" THEN FormAppend(formData, key, ReadStream(media.media))
  ELSE FormAppend(formData, key, media.media)

\* the loop appending structured values as they are, without JSON.stringify
RECURSIVE AppendConfig_raw(_, _, _)
AppendConfig_raw(formData, props, i) ==
  IF i > Len(props) THEN formData
  ELSE LET data == props[i].value IN
       IF ~Truthy(data) THEN AppendConfig_raw(formData, props, i + 1)
       ELSE AppendConfig_raw(FormAppend(formData, props[i].key, data), props, i + 1)

\* the loop skipping only undefined and null (`data == null`)
RECURSIVE AppendConfig_nullish(_, _, _)
AppendConfig_nullish(formData, props, i) ==
  IF i > Len(props) THEN formData
  ELSE LET data == props[i].value IN
       IF data.t \in {"undefined", "null"} THEN AppendConfig_nullish(formData, props, i + 1)
       ELSE AppendConfig_nullish(
              FormAppend(formData, props[i].key,
                         IF TypeOf(data) = "object" THEN JSONstringify(data) ELSE data),
              props, i + 1)

\* the Object.keys(config).forEach loop of both form builders
RECURSIVE AppendConfig(_, _, _)
AppendConfig(formData, props, i) ==
  IF i > Len(props) THEN formData
  ELSE LET data == props[i].value IN
       IF ~Truthy(data) THEN AppendConfig(formData, props, i + 1)
       ELSE AppendConfig(
              FormAppend(formData, props[i].key,
                         IF TypeOf(data) = "object" THEN JSONstringify(data) ELSE data),
              props, i + 1)

\* Api.buildFormData never asking the cache for the primary media
buildFormData_alwaysAttach(cache, fromMediaKey, media, config) ==
  LET f1 == appendMediaToFormData(<<>>, fromMediaKey, media)
      thumb == GetProp(config, "thumb")
      f2 == IF Truthy(thumb)
            THEN appendMediaToFormData(f1, "thumb",
                                       Or(MediaCache_getMediaFileId(cache, thumb.media), thumb))
            ELSE f1
  IN AppendConfig(f2, config.v, 1)

\* Api.buildFormData
buildFormData(cache, fromMediaKey, media, config) ==
  LET f1 == appendMediaToFormData(<<>>, fromMediaKey,
                                  Or(MediaCache_getMediaFileId(cache, media.media), media))
      thumb == GetProp(config, "thumb")
      f2 == IF Truthy(thumb)
            THEN appendMediaToFormData(f1, "thumb",
                                       Or(MediaCache_getMediaFileId(cache, thumb.media), thumb))
            ELSE f1
  IN AppendConfig(f2, config.v, 1)

\* Api.buildAttachFormData
buildAttachFormData(config) == AppendConfig(<<>>, config.v, 1)

(***************************************************************************)
(* The remote side.  A message carries its message_id and, under the field *)
(* named after the media kind, the file it holds: a list of sizes in       *)
(* ascending resolution for a photo, a single object otherwise.            *)
(***************************************************************************)
FileInfos == {[file_id |-> f] : f \in FileIds}

PhotoSizes == UNION {[1..n -> FileInfos] : n \in 1..MaxSizes}

MediaInfos(mediaKey) == IF mediaKey = "photo" THEN PhotoSizes ELSE FileInfos

\* the messages the remote side can answer for one sent item of kind mediaKey
Messages(messageId, mediaKey) ==
  {("message_id" :> messageId) @@ (mediaKey :> info) : info \in MediaInfos(mediaKey)}

\* the answers to sendMediaGroup: one message per submitted item, in order
RECURSIVE GroupMessages(_, _)
GroupMessages(mediaGroup, i) ==
  IF i > Len(mediaGroup) THEN {<<>>}
  ELSE {<<m>> \o rest : m \in Messages(i, mediaGroup[i].type),
                        rest \in GroupMessages(mediaGroup, i + 1)}

\* indexOf answering 0 whatever the message
IndexOf_zero(sentMessages, sentMessage) == 0

\* sentMessages.indexOf(sentMessage), zero-based: the first position holding it
IndexOf(sentMessages, sentMessage) ==
  (CHOOSE i \in 1..Len(sentMessages) :
     /\ sentMessages[i] = sentMessage
     /\ \A j \in 1..(i - 1) : sentMessages[j] # sentMessage) - 1

(***************************************************************************)
(* Write-back.                                                             *)
(***************************************************************************)
\* Api.saveMediaFileId without its guard: the entry for path is assigned
Api_saveMediaFileId_overwrite(cache, path, mediaKey, message) ==
  LET info == message[mediaKey]
      mediaFileInfo == IF mediaKey = "photo" THEN info[Len(info)] ELSE info
  IN [k \in DOMAIN cache \cup {path} |->
        IF k = path THEN mediaFileInfo.file_id ELSE cache[k]]

\* Api.saveMediaFileId with its guard inverted
Api_saveMediaFileId_inverted(cache, path, mediaKey, message) ==
  IF Truthy(MediaCache_getMediaFileId(cache, path))
  THEN LET info == message[mediaKey]
           mediaFileInfo == IF mediaKey = "photo" THEN info[Len(info)] ELSE info
       IN MediaCache_saveMediaFileId(cache, path, mediaFileInfo.file_id)
  ELSE cache

\* Api.saveMediaFileId taking the first photo size instead of the last
Api_saveMediaFileId_firstSize(cache, path, mediaKey, message) ==
  IF ~Truthy(MediaCache_getMediaFileId(cache, path))
  THEN LET info == message[mediaKey]
           mediaFileInfo == IF mediaKey = "photo" THEN info[1] ELSE info
       IN MediaCache_saveMediaFileId(cache, path, mediaFileInfo.file_id)
  ELSE cache

\* Api.saveMediaFileId: the cache after the call (the message is returned as is)
Api_saveMediaFileId(cache, path, mediaKey, message) ==
  IF ~Truthy(MediaCache_getMediaFileId(cache, path))
  THEN LET info == message[mediaKey]
           mediaFileInfo == IF mediaKey = "photo" THEN info[Len(info)] ELSE info
       IN MediaCache_saveMediaFileId(cache, path, mediaFileInfo.file_id)
  ELSE cache

\* the write-back loop stopping after the first message
SaveGroup_firstOnly(cache, mediaGroup, sentMessages, i) ==
  IF i > 1 \/ Len(sentMessages) = 0 THEN cache
  ELSE Api_saveMediaFileId(cache, mediaGroup[1].media, mediaGroup[1].type, sentMessages[1])

\* the for...of loop of sendMediaGroup over sentMessages, from position i on
RECURSIVE SaveGroup(_, _, _, _)
SaveGroup(cache, mediaGroup, sentMessages, i) ==
  IF i > Len(sentMessages) THEN cache
  ELSE LET sentMessage == sentMessages[i]
           media == mediaGroup[IndexOf(sentMessages, sentMessage) + 1]
       IN SaveGroup(Api_saveMediaFileId(cache, media.media, media.type, sentMessage),
                    mediaGroup, sentMessages, i + 1)

(***************************************************************************)
(* The media group request of sendMediaGroup.                              *)
(***************************************************************************)
\* the InputMedia descriptor of the item at zero-based position index
InputMedia(cache, media, index) ==
  LET base == Obj(<<[key |-> "type", value |-> Str(media.type)],
                    [key |-> "media",
                     value |-> Or(MediaCache_getMediaFileId(cache, media.media),
                                  Str("attach://" \o ToString(index)))]>>)
      withThumb ==
        IF Truthy(media.thumb)
        THEN SetProp(base, "thumb",
                     Or(MediaCache_getMediaFileId(cache, media.thumb.media),
                        Str("attach://" \o ToString(index) \o "_thumb")))
        ELSE base
      withResolution ==
        IF media.type = "video" THEN Spread(withThumb, media.resolution) ELSE withThumb
  IN Spread(withResolution, Or(media.options, Obj(<<>>)))

\* the forEach loop attaching every media, cached or not
RECURSIVE AttachGroup_always(_, _, _, _)
AttachGroup_always(cache, formData, mediaGroup, i) ==
  IF i > Len(mediaGroup) THEN formData
  ELSE LET media == mediaGroup[i]
           index == i - 1
           f1 == appendMediaToFormData(formData, ToString(index), media)
           f2 == IF Truthy(media.thumb)
                    /\ ~Truthy(MediaCache_getMediaFileId(cache, media.thumb.media))
                 THEN appendMediaToFormData(f1, ToString(index) \o "_thumb", media.thumb)
                 ELSE f1
       IN AttachGroup_always(cache, f2, mediaGroup, i + 1)

\* the mediaGroup.forEach loop appending the binary parts, from position i on
RECURSIVE AttachGroup(_, _, _, _)
AttachGroup(cache, formData, mediaGroup, i) ==
  IF i > Len(mediaGroup) THEN formData
  ELSE LET media == mediaGroup[i]
           index == i - 1
           f1 == IF ~Truthy(MediaCache_getMediaFileId(cache, media.media))
                 THEN appendMediaToFormData(formData, ToString(index), media)
                 ELSE formData
           f2 == IF Truthy(media.thumb)
                    /\ ~Truthy(MediaCache_getMediaFileId(cache, media.thumb.media))
                 THEN appendMediaToFormData(f1, ToString(index) \o "_thumb", media.thumb)
                 ELSE f1
       IN AttachGroup(cache, f2, mediaGroup, i + 1)

\* the configuration sendMediaGroup hands to buildAttachFormData
MediaGroupConfig(cache, chatId, mediaGroup, moreOptions) ==
  Spread(Obj(<<[key |-> "chat_id", value |-> chatId],
               [key |-> "media",
                value |-> Arr([i \in 1..Len(mediaGroup) |->
                                InputMedia(cache, mediaGroup[i], i - 1)])]>>),
         moreOptions)

\* the form sendMediaGroup hands to callApi
MediaGroupFormData(cache, chatId, mediaGroup, moreOptions) ==
  AttachGroup(cache,
              buildAttachFormData(MediaGroupConfig(cache, chatId, mediaGroup, moreOptions)),
              mediaGroup, 1)

(***************************************************************************)
(* State.                                                                  *)
(***************************************************************************)
VARIABLES
  token,       \* the token the Api was constructed with, or undefined
  mediaCache,  \* the process wide MediaCache: local key -> file identifier
  calls        \* the top-level calls: where each one stands and what it holds

vars == <<token, mediaCache, calls>>

Calls == 1..MaxCalls

\* the arguments callers pass besides the media
ChatIds == {Num(7)}
Keyboards == {Null}
MoreOptions == {Obj(<<>>)}

\* media without a thumbnail
PlainMedias(type) == {NewMedia(type, i, Undefined) : i \in Files}

\* the media objects the callers of the concurrent calls hold, by class
PlainPhotos == PlainMedias("photo")
PlainVideos == PlainMedias("video")
PlainVideoNotes == PlainMedias("video_note")
PlainAudios == PlainMedias("audio")
PlainVoices == PlainMedias("voice")
PlainDocuments == PlainMedias("document")
PlainAnimations == PlainMedias("animation")

\* every media object of the model, by class
Photos == Medias("photo")
Videos == Medias("video")
VideoNotes == Medias("video_note")
Audios == Medias("audio")
Voices == Medias("voice")
Documents == Medias("document")
Animations == Medias("animation")

\* the media groups over the items of the set medias
MediaGroups(medias) == UNION {[1..n -> medias] : n \in 1..MaxGroup}

\* every media group: any supported kind, with or without thumbnail
AllMediaGroups == MediaGroups(Photos \cup Videos \cup Audios \cup Documents)

\* media groups of photos and videos without thumbnails
PlainMediaGroups == MediaGroups(PlainPhotos \cup PlainVideos)

\* a call that has not started, or whose promise has settled with result
Settled(pc, method, result) ==
  [pc |-> pc, method |-> method, mediaKey |-> "", media |-> <<>>, config |-> Undefined,
   formData |-> <<>>, requests |-> 0, response |-> Undefined, content |-> Undefined,
   result |-> result]

Init ==
  /\ token \in {Str("TOKEN"), Undefined}
  /\ mediaCache = <<>>
  /\ calls = [c \in Calls |-> Settled("idle", "", Undefined)]

\* a call slot can carry a new call once the caller has taken the outcome of
\* the previous one
Free(c) == calls[c].pc = "idle"

\* `if (keyboard) moreOptions.reply_markup = keyboard.buildMarkup()`
WithKeyboard(moreOptions, keyboard) ==
  IF Truthy(keyboard)
  THEN SetProp(moreOptions, "reply_markup", Obj(<<[key |-> "keyboard", value |-> keyboard]>>))
  ELSE moreOptions

\* the options every single-media send starts its configuration with
BaseConfig(chatId) ==
  Obj(<<[key |-> "chat_id", value |-> chatId], [key |-> "parse_mode", value |-> Str("HTML")]>>)

\* Api.callApi without its token check: the request is posted whatever the
\* token
callApi_unchecked(c, method, mediaKey, media, config, formData) ==
  calls' = [calls EXCEPT ![c] =
              [pc |-> "awaiting", method |-> method, mediaKey |-> mediaKey,
               media |-> media, config |-> config, formData |-> formData,
               requests |-> calls[c].requests + 1, response |-> Undefined,
               content |-> Undefined, result |-> Undefined]]

\* Api.callApi followed by the synchronous part of Api.call: without a token
\* the call throws, otherwise the request is posted and the call is suspended
callApi(c, method, mediaKey, media, config, formData) ==
  IF ~Truthy(token)
  THEN calls' = [calls EXCEPT ![c] =
                   Settled("failed", method, Str("You can't call ." \o method \o " without token"))]
  ELSE calls' = [calls EXCEPT ![c] =
                   [pc |-> "awaiting", method |-> method, mediaKey |-> mediaKey,
                    media |-> media, config |-> config, formData |-> formData,
                    requests |-> calls[c].requests + 1, response |-> Undefined,
                    content |-> Undefined, result |-> Undefined]]

\* a single-media send that records the media in the cache while it builds
\* the payload
SendMedia_eager(c, method, mediaKey, media, config) ==
  /\ callApi(c, method, mediaKey, <<media>>, config,
             buildFormData(mediaCache, mediaKey, media, config))
  /\ mediaCache' = MediaCache_saveMediaFileId(mediaCache, media.media, "pending")
  /\ UNCHANGED token

\* the part the seven single-media sends share, up to the await
SendMedia(c, method, mediaKey, media, config) ==
  /\ callApi(c, method, mediaKey, <<media>>, config,
             buildFormData(mediaCache, mediaKey, media, config))
  /\ UNCHANGED <<token, mediaCache>>

\* Api.sendPhoto, up to the await
sendPhoto(c, chatId, photo, keyboard, moreOptions) ==
  SendMedia(c, "sendPhoto", "photo", photo,
            Spread(BaseConfig(chatId), WithKeyboard(moreOptions, keyboard)))

\* Api.sendVideo, up to the await
sendVideo(c, chatId, video, keyboard, moreOptions) ==
  SendMedia(c, "sendVideo", "video", video,
            Spread(Spread(SetProp(BaseConfig(chatId), "thumb", video.thumb),
                          video.resolution),
                   WithKeyboard(moreOptions, keyboard)))

\* Api.sendVideoNote, up to the await
sendVideoNote(c, chatId, videoNote, keyboard, moreOptions) ==
  SendMedia(c, "sendVideoNote", "video_note", videoNote,
            Spread(SetProp(BaseConfig(chatId), "thumb", videoNote.thumb),
                   WithKeyboard(moreOptions, keyboard)))

\* Api.sendAudio, up to the await
sendAudio(c, chatId, audio, keyboard, moreOptions) ==
  SendMedia(c, "sendAudio", "audio", audio,
            Spread(SetProp(BaseConfig(chatId), "thumb", audio.thumb),
                   WithKeyboard(moreOptions, keyboard)))

\* Api.sendVoice, up to the await
sendVoice(c, chatId, voice, keyboard, moreOptions) ==
  SendMedia(c, "sendVoice", "voice", voice,
            Spread(BaseConfig(chatId), WithKeyboard(moreOptions, keyboard)))

\* Api.sendDocument, up to the await
sendDocument(c, chatId, document, keyboard, moreOptions) ==
  SendMedia(c, "sendDocument", "document", document,
            Spread(SetProp(BaseConfig(chatId), "thumb", document.thumb),
                   WithKeyboard(moreOptions, keyboard)))

\* Api.sendAnimation, up to the await
sendAnimation(c, chatId, animation, keyboard, moreOptions) ==
  SendMedia(c, "sendAnimation", "animation", animation,
            Spread(Spread(SetProp(BaseConfig(chatId), "thumb", animation.thumb),
                          animation.resolution),
                   WithKeyboard(moreOptions, keyboard)))

\* Api.sendMediaGroup, up to the await
sendMediaGroup(c, chatId, mediaGroup, moreOptions) ==
  /\ callApi(c, "sendMediaGroup", "", mediaGroup,
             MediaGroupConfig(mediaCache, chatId, mediaGroup, moreOptions),
             MediaGroupFormData(mediaCache, chatId, mediaGroup, moreOptions))
  /\ UNCHANGED <<token, mediaCache>>

\* a caller invokes sendPhoto
SendPhoto(c, medias, keyboards, options) ==
  \E photo \in medias, chatId \in ChatIds, keyboard \in keyboards, moreOptions \in options :
    /\ Free(c)
    /\ sendPhoto(c, chatId, photo, keyboard, moreOptions)

\* a caller invokes sendVideo
SendVideo(c, medias, keyboards, options) ==
  \E video \in medias, chatId \in ChatIds, keyboard \in keyboards, moreOptions \in options :
    /\ Free(c)
    /\ sendVideo(c, chatId, video, keyboard, moreOptions)

\* a caller invokes sendVideoNote
SendVideoNote(c, medias, keyboards, options) ==
  \E videoNote \in medias, chatId \in ChatIds, keyboard \in keyboards,
     moreOptions \in options :
    /\ Free(c)
    /\ sendVideoNote(c, chatId, videoNote, keyboard, moreOptions)

\* a caller invokes sendAudio
SendAudio(c, medias, keyboards, options) ==
  \E audio \in medias, chatId \in ChatIds, keyboard \in keyboards, moreOptions \in options :
    /\ Free(c)
    /\ sendAudio(c, chatId, audio, keyboard, moreOptions)

\* a caller invokes sendVoice
SendVoice(c, medias, keyboards, options) ==
  \E voice \in medias, chatId \in ChatIds, keyboard \in keyboards, moreOptions \in options :
    /\ Free(c)
    /\ sendVoice(c, chatId, voice, keyboard, moreOptions)

\* a caller invokes sendDocument
SendDocument(c, medias, keyboards, options) ==
  \E document \in medias, chatId \in ChatIds, keyboard \in keyboards,
     moreOptions \in options :
    /\ Free(c)
    /\ sendDocument(c, chatId, document, keyboard, moreOptions)

\* a caller invokes sendAnimation
SendAnimation(c, medias, keyboards, options) ==
  \E animation \in medias, chatId \in ChatIds, keyboard \in keyboards,
     moreOptions \in options :
    /\ Free(c)
    /\ sendAnimation(c, chatId, animation, keyboard, moreOptions)

\* a caller invokes sendMediaGroup
SendMediaGroup(c, mediaGroups, options) ==
  \E mediaGroup \in mediaGroups, chatId \in ChatIds, moreOptions \in options :
    /\ Free(c)
    /\ sendMediaGroup(c, chatId, mediaGroup, moreOptions)

\* Api.getMe: a call that carries no media
GetMe(c) ==
  /\ Free(c)
  /\ callApi(c, "getMe", "", <<>>, Undefined, <<>>)
  /\ UNCHANGED <<token, mediaCache>>

\* Api.sendLocation: a call whose configuration is posted as it is
sendLocation(c, chatId, latitude, longitude, moreOptions) ==
  /\ callApi(c, "sendLocation", "", <<>>,
             Spread(Obj(<<[key |-> "chat_id", value |-> chatId],
                          [key |-> "latitude", value |-> latitude],
                          [key |-> "longitude", value |-> longitude]>>),
                    moreOptions),
             <<>>)
  /\ UNCHANGED <<token, mediaCache>>

\* the classes of message creators and of media the generic send tells apart
\* with instanceof
MessageCreators == {"message_send", "alert", "toast", "location", "message_creator"}
MediaClasses == MediaFileTypes \cup {"media_group", "media"}

\* a MessageSend, an Alert, a Toast, a Location and a message creator of
\* another class, as far as send reads them
NewMessageSend(content, options) ==
  [t |-> "object", type |-> "message_send", content |-> content, options |-> options]
NewAlert(type, text, options) ==
  [t |-> "object", type |-> type, text |-> text, options |-> options]
NewLocation(latitude, longitude, options) ==
  [t |-> "object", type |-> "location", latitude |-> latitude, longitude |-> longitude,
   options |-> options]
NewMessageCreator(options) == [t |-> "object", type |-> "message_creator", options |-> options]

\* a MediaGroup object, and a Media object of no concrete class
NewMediaGroup(mediaGroup) == [t |-> "object", type |-> "media_group", mediaGroup |-> mediaGroup]
BareMedia(i) == NewMedia("media", i, Undefined)

\* content instanceof MessageCreator, content instanceof Media
IsMessageCreator(content) == content.t = "object" /\ content.type \in MessageCreators
IsMedia(content) == content.t = "object" /\ content.type \in MediaClasses

\* send leaves without a remote call: it throws (pc "failed") or returns
\* nothing (pc "done")
Leave(c, pc, content, result) ==
  /\ calls' = [calls EXCEPT ![c] = [Settled(pc, "send", result) EXCEPT !.content = content]]
  /\ UNCHANGED <<token, mediaCache>>

\* Api.send reaching the end of the Media branch without throwing
send_noThrow(c, chatId, content, keyboard, moreOptions) ==
  LET options == IF IsMessageCreator(content)
                 THEN Spread(moreOptions, content.options) ELSE moreOptions
      inner == IF IsMessageCreator(content) /\ content.type = "message_send"
               THEN content.content
               ELSE IF IsMessageCreator(content) /\ content.type \in {"alert", "toast"}
               THEN content.text
               ELSE content
  IN IF IsMessageCreator(content) /\ content.type = "location"
     THEN sendLocation(c, chatId, content.latitude, content.longitude, options)
     ELSE IF IsMedia(inner) /\ inner.type \notin {"media"}
     THEN CASE inner.type = "photo" -> sendPhoto(c, chatId, inner, keyboard, options)
            [] inner.type = "animation" -> sendAnimation(c, chatId, inner, keyboard, options)
            [] inner.type = "video" -> sendVideo(c, chatId, inner, keyboard, options)
            [] inner.type = "video_note" -> sendVideoNote(c, chatId, inner, keyboard, options)
            [] inner.type = "audio" -> sendAudio(c, chatId, inner, keyboard, options)
            [] inner.type = "document" -> sendDocument(c, chatId, inner, keyboard, options)
            [] inner.type = "voice" -> sendVoice(c, chatId, inner, keyboard, options)
            [] inner.type = "media_group" ->
                 sendMediaGroup(c, chatId, inner.mediaGroup, options)
     ELSE IF TypeOf(inner) # "string"
     THEN Leave(c, "done", content, Undefined)
     ELSE /\ callApi(c, "sendMessage", "", <<>>,
                     Spread(Obj(<<[key |-> "text", value |-> inner],
                                  [key |-> "chat_id", value |-> chatId],
                                  [key |-> "parse_mode", value |-> Str("HTML")]>>),
                            WithKeyboard(options, keyboard)),
                     <<>>)
          /\ UNCHANGED <<token, mediaCache>>

\* Api.send
send(c, chatId, content, keyboard, moreOptions) ==
  LET options == IF IsMessageCreator(content)
                 THEN Spread(moreOptions, content.options) ELSE moreOptions
      inner == IF IsMessageCreator(content) /\ content.type = "message_send"
               THEN content.content
               ELSE IF IsMessageCreator(content) /\ content.type \in {"alert", "toast"}
               THEN content.text
               ELSE content
  IN IF IsMessageCreator(content) /\ content.type = "location"
     THEN sendLocation(c, chatId, content.latitude, content.longitude, options)
     ELSE IF IsMedia(inner)
     THEN CASE inner.type = "photo" -> sendPhoto(c, chatId, inner, keyboard, options)
            [] inner.type = "animation" -> sendAnimation(c, chatId, inner, keyboard, options)
            [] inner.type = "video" -> sendVideo(c, chatId, inner, keyboard, options)
            [] inner.type = "video_note" -> sendVideoNote(c, chatId, inner, keyboard, options)
            [] inner.type = "audio" -> sendAudio(c, chatId, inner, keyboard, options)
            [] inner.type = "document" -> sendDocument(c, chatId, inner, keyboard, options)
            [] inner.type = "voice" -> sendVoice(c, chatId, inner, keyboard, options)
            [] inner.type = "media_group" ->
                 sendMediaGroup(c, chatId, inner.mediaGroup, options)
            [] OTHER ->
                 Leave(c, "failed", content,
                       Str("Media file type is not defined. Don't use Media class, "
                             \o "use Photo, Video class instead"))
     ELSE IF TypeOf(inner) # "string"
     THEN Leave(c, "done", content, Undefined)
     ELSE /\ callApi(c, "sendMessage", "", <<>>,
                     Spread(Obj(<<[key |-> "text", value |-> inner],
                                  [key |-> "chat_id", value |-> chatId],
                                  [key |-> "parse_mode", value |-> Str("HTML")]>>),
                            WithKeyboard(options, keyboard)),
                     <<>>)
          /\ UNCHANGED <<token, mediaCache>>

\* a caller invokes the generic send
Send(c, contents, keyboards, options) ==
  \E content \in contents, chatId \in ChatIds, keyboard \in keyboards, moreOptions \in options :
    /\ Free(c)
    /\ send(c, chatId, content, keyboard, moreOptions)

\* the methods of the seven single-media sends
SingleMethods ==
  {"sendPhoto", "sendVideo", "sendVideoNote", "sendAudio", "sendVoice", "sendDocument",
   "sendAnimation"}

\* the methods whose answer carries no media to write back
PlainMethods == {"getMe", "sendMessage", "sendLocation"}

\* what the remote side can answer to the request of call c
Results(c) ==
  CASE calls[c].method = "sendMediaGroup" -> GroupMessages(calls[c].media, 1)
    [] calls[c].method = "getMe" -> {("id" :> 1)}
    [] calls[c].method \in {"sendMessage", "sendLocation"} -> {("message_id" :> 1)}
    [] OTHER -> Messages(1, calls[c].mediaKey)

\* a write-back that also records the thumbnail of a single send under the
\* thumbnail's key
WriteBack_thumbs(c, result) ==
  CASE calls[c].method = "sendMediaGroup" ->
         SaveGroup(mediaCache, calls[c].media, result, 1)
    [] calls[c].method \in PlainMethods -> mediaCache
    [] OTHER ->
         LET media == calls[c].media[1]
             saved == Api_saveMediaFileId(mediaCache, media.media, calls[c].mediaKey, result)
         IN IF Truthy(media.thumb)
            THEN Api_saveMediaFileId(saved, media.thumb.media, calls[c].mediaKey, result)
            ELSE saved

\* the cache after the code that follows the await of call c has run on result
WriteBack(c, result) ==
  CASE calls[c].method = "sendMediaGroup" ->
         SaveGroup(mediaCache, calls[c].media, result, 1)
    [] calls[c].method \in PlainMethods -> mediaCache
    [] OTHER ->
         Api_saveMediaFileId(mediaCache, calls[c].media[1].media, calls[c].mediaKey, result)

\* axios.post resolved: Api.call returns data.result and the caller's
\* continuation runs to its end (write-back, then the result is returned)
AxiosResolve(c) ==
  /\ calls[c].pc = "awaiting"
  /\ \E result \in Results(c) :
       /\ mediaCache' = WriteBack(c, result)
       /\ calls' = [calls EXCEPT ![c] =
                       [Settled("done", calls[c].method, result)
                          EXCEPT !.requests = calls[c].requests]]
  /\ UNCHANGED token

\* a rejection met after the first item of the call was already written back
AxiosReject_partial(c) ==
  /\ calls[c].pc = "awaiting"
  /\ calls' = [calls EXCEPT ![c] =
                  [Settled("failed", calls[c].method, Str(".callApi error"))
                     EXCEPT !.requests = calls[c].requests]]
  /\ mediaCache' = IF Len(calls[c].media) > 0
                   THEN MediaCache_saveMediaFileId(mediaCache, calls[c].media[1].media, "id1")
                   ELSE mediaCache
  /\ UNCHANGED token

\* a rejection answered by posting the request once more
AxiosReject_retry(c) ==
  /\ calls[c].pc = "awaiting"
  /\ calls[c].requests < 2
  /\ calls' = [calls EXCEPT ![c].requests = @ + 1]
  /\ UNCHANGED <<token, mediaCache>>

\* axios.post rejected (network failure or non-success status): Api.call wraps
\* the error and throws it, which rejects the caller's promise
AxiosReject(c) ==
  /\ calls[c].pc = "awaiting"
  /\ calls' = [calls EXCEPT ![c] =
                  [Settled("failed", calls[c].method, Str(".callApi error"))
                     EXCEPT !.requests = calls[c].requests]]
  /\ UNCHANGED <<token, mediaCache>>

\* the caller's own continuation: it takes the result or the error of the
\* settled promise
Return(c) ==
  /\ calls[c].pc \in {"done", "failed"}
  /\ calls' = [calls EXCEPT ![c] = Settled("idle", "", Undefined)]
  /\ UNCHANGED <<token, mediaCache>>

\* concurrent calls; media without thumbnails
Next ==
  \E c \in Calls :
    \/ SendPhoto(c, PlainPhotos, Keyboards, MoreOptions)
    \/ SendVideo(c, PlainVideos, Keyboards, MoreOptions)
    \/ SendVideoNote(c, PlainVideoNotes, Keyboards, MoreOptions)
    \/ SendAudio(c, PlainAudios, Keyboards, MoreOptions)
    \/ SendVoice(c, PlainVoices, Keyboards, MoreOptions)
    \/ SendDocument(c, PlainDocuments, Keyboards, MoreOptions)
    \/ SendAnimation(c, PlainAnimations, Keyboards, MoreOptions)
    \/ SendMediaGroup(c, PlainMediaGroups, MoreOptions)
    \/ GetMe(c)
    \/ AxiosResolve(c)
    \/ AxiosReject(c)
    \/ Return(c)

Spec == Init /\ [][Next]_vars

\* one call at a time; every media, with and without thumbnails
NextSeq ==
  \/ SendPhoto(1, Photos, Keyboards, MoreOptions)
  \/ SendVideo(1, Videos, Keyboards, MoreOptions)
  \/ SendVideoNote(1, VideoNotes, Keyboards, MoreOptions)
  \/ SendAudio(1, Audios, Keyboards, MoreOptions)
  \/ SendVoice(1, Voices, Keyboards, MoreOptions)
  \/ SendDocument(1, Documents, Keyboards, MoreOptions)
  \/ SendAnimation(1, Animations, Keyboards, MoreOptions)
  \/ SendMediaGroup(1, AllMediaGroups, MoreOptions)
  \/ GetMe(1)
  \/ AxiosResolve(1)
  \/ AxiosReject(1)
  \/ Return(1)

SpecSeq == Init /\ [][NextSeq]_vars

\* the values a caller can give an option: absent, falsy and populated ones
OptionValues ==
  {Undefined, Null, Bool(FALSE), Bool(TRUE), Num(0), Num(3), Str(""), Str("hi"),
   Obj(<<[key |-> "type", value |-> Str("bold")]>>)}

\* the option bags callers pass as moreOptions: one option of any value, an
\* option next to an absent or a falsy one, and options that replace the
\* chat_id and parse_mode the send puts first
ConfigOptions ==
  {Obj(<<>>)}
    \cup {Obj(<<[key |-> "caption", value |-> v]>>) : v \in OptionValues}
    \cup {Obj(<<[key |-> "duration", value |-> v], [key |-> "caption", value |-> Str("hi")]>>) :
            v \in {Undefined, Num(0)}}
    \cup {Obj(<<[key |-> "disable_notification", value |-> Bool(FALSE)],
                [key |-> "protect_content", value |-> Bool(TRUE)]>>),
          Obj(<<[key |-> "parse_mode", value |-> Undefined]>>),
          Obj(<<[key |-> "chat_id", value |-> Num(0)]>>)}

\* a Keyboard object, or none
ConfigKeyboards == {Null, [t |-> "object", type |-> "keyboard"]}

\* the media groups of the configuration runs: photos, and documents with and
\* without thumbnail
ConfigMediaGroups == MediaGroups(PlainPhotos \cup Documents)

\* one call at a time; every media and every option bag
NextConfig ==
  \/ SendPhoto(1, Photos, ConfigKeyboards, ConfigOptions)
  \/ SendVideo(1, Videos, ConfigKeyboards, ConfigOptions)
  \/ SendVideoNote(1, VideoNotes, ConfigKeyboards, ConfigOptions)
  \/ SendAudio(1, Audios, ConfigKeyboards, ConfigOptions)
  \/ SendVoice(1, Voices, ConfigKeyboards, ConfigOptions)
  \/ SendDocument(1, Documents, ConfigKeyboards, ConfigOptions)
  \/ SendAnimation(1, Animations, ConfigKeyboards, ConfigOptions)
  \/ SendMediaGroup(1, ConfigMediaGroups, ConfigOptions)
  \/ GetMe(1)
  \/ AxiosResolve(1)
  \/ AxiosReject(1)
  \/ Return(1)

SpecConfig == Init /\ [][NextConfig]_vars

\* the descriptions a failure payload of the remote side carries
Descriptions == {"Bad Request: chat not found"}

\* axios.post resolved with a success status and a payload that reports a
\* failure, { ok: false, description }: Api.call returns data.result, which is
\* undefined, and the caller's continuation runs on it.  Api.saveMediaFileId
\* reads message[mediaKey] of it when the key is not cached and the for...of
\* of sendMediaGroup iterates it: both throw a TypeError
AxiosResolveFailure(c) ==
  /\ calls[c].pc = "awaiting"
  /\ \E description \in Descriptions :
       LET throws ==
             CASE calls[c].method \in SingleMethods ->
                    ~Truthy(MediaCache_getMediaFileId(mediaCache, calls[c].media[1].media))
               [] calls[c].method = "sendMediaGroup" -> TRUE
               [] OTHER -> FALSE
           settled ==
             IF throws
             THEN Settled("failed", calls[c].method, Str("TypeError"))
             ELSE Settled("done", calls[c].method, Undefined)
       IN calls' = [calls EXCEPT ![c] =
                      [settled EXCEPT
                         !.requests = calls[c].requests,
                         !.response = [status |-> 200,
                                       data |-> [ok |-> FALSE, description |-> description]]]]
  /\ UNCHANGED <<token, mediaCache>>

\* what callers hand to the generic send: texts, nothing, every class of
\* media, a Media of no class, media groups and message creators
SendContents ==
  {Str("hi"), Str(""), Undefined, Null, Num(3)}
    \cup PlainPhotos \cup PlainVideos \cup PlainVideoNotes \cup PlainAudios \cup PlainVoices
    \cup PlainDocuments \cup PlainAnimations
    \cup {BareMedia(i) : i \in Files}
    \cup {NewMediaGroup(g) : g \in MediaGroups(PlainPhotos)}
    \cup {NewMessageSend(content, Obj(<<[key |-> "caption", value |-> Str("hi")]>>)) :
            content \in {Str("hi"), Undefined} \cup PlainPhotos \cup {BareMedia(1)}}
    \cup {NewAlert("alert", Str("hi"), Undefined), NewAlert("toast", Str("hi"), Undefined),
          NewLocation(Num(1), Num(2), Undefined), NewMessageCreator(Undefined)}

\* one call at a time through the generic send, with every answer of the
\* remote side
NextSend ==
  \/ Send(1, SendContents, ConfigKeyboards, MoreOptions)
  \/ GetMe(1)
  \/ AxiosResolve(1)
  \/ AxiosResolveFailure(1)
  \/ AxiosReject(1)
  \/ Return(1)

SpecSend == Init /\ [][NextSend]_vars

(***************************************************************************)
(* Vocabulary of the properties.                                           *)
(***************************************************************************)
\* call c takes its first step: the payload is built and the request posted
Starts(c) == calls[c].pc = "idle" /\ calls'[c].pc = "awaiting"

\* call c takes its last step with a successful response
Succeeds(c) == calls[c].pc = "awaiting" /\ calls'[c].pc = "done"

\* call c ends in an error
Fails(c) == calls[c].pc \in {"idle", "awaiting"} /\ calls'[c].pc = "failed"

\* the value of a form part is binary content: a read stream or a buffer
IsBinary(value) == value.t \in {"stream", "buffer"}

\* the binary content of the local source key, as a form part carries it
BinaryOf(key) == IF key.t = "string" THEN ReadStream(key) ELSE key

\* the positions of the parts of formData named name
PartsNamed(formData, name) == {i \in 1..Len(formData) : formData[i].name = name}

\* the identifier a message carries for a media kind: that of the largest
\* photo size, that of the single file object otherwise
CarriedFileId(mediaKey, message) ==
  IF mediaKey = "photo"
  THEN message.photo[Len(message.photo)].file_id
  ELSE message[mediaKey].file_id

(***************************************************************************)
(* C1  Cache entries are stable: once lookup(k) returns v it returns v     *)
(* forever; a later write-back for k with another identifier is a no-op   *)
(* and no entry is ever removed.                                           *)
(***************************************************************************)
C1_CacheEntriesStable ==
  [][\A k \in DOMAIN mediaCache :
       /\ k \in DOMAIN mediaCache'
       /\ MediaCache_getMediaFileId(mediaCache', k) = MediaCache_getMediaFileId(mediaCache, k)]_vars

\* a single send has completed with an identifier that no entry holds: its
\* write-back met an entry with another identifier and left it alone
C1_Witness ==
  \E c \in Calls :
    /\ calls[c].pc = "done"
    /\ calls[c].method = "sendVideo"
    /\ \A k \in DOMAIN mediaCache : mediaCache[k] # calls[c].result.video.file_id

(***************************************************************************)
(* C2  Cache-miss round trip, as stated: for every media kind and every    *)
(* key p absent from the cache when a single-media send starts (the form   *)
(* carries p's binary), if the remote call succeeds with identifier id     *)
(* then lookup(p) = id when the send completes.                            *)
(***************************************************************************)
C2_RoundTripFromStart ==
  [][\A c \in Calls :
       (/\ Succeeds(c)
        /\ calls[c].method \in SingleMethods
        /\ IsBinary(calls[c].formData[1].value))
       => MediaCache_getMediaFileId(mediaCache', calls[c].media[1].media)
            = Str(CarriedFileId(calls[c].mediaKey, calls'[c].result))]_vars

(***************************************************************************)
(* C2 (amended)  For every media kind and every key p that is absent from  *)
(* the cache when the send starts and still absent when its response       *)
(* arrives, lookup(p) = id when the send completes.                        *)
(***************************************************************************)
C2_RoundTrip ==
  [][\A c \in Calls :
       (/\ Succeeds(c)
        /\ calls[c].method \in SingleMethods
        /\ IsBinary(calls[c].formData[1].value)
        /\ calls[c].media[1].media \notin DOMAIN mediaCache)
       => MediaCache_getMediaFileId(mediaCache', calls[c].media[1].media)
            = Str(CarriedFileId(calls[c].mediaKey, calls'[c].result))]_vars

\* an animation has been sent and the only entry of the cache holds the
\* identifier its response carried
C2_Witness ==
  /\ Cardinality(DOMAIN mediaCache) = 1
  /\ \E c \in Calls :
       /\ calls[c].pc = "done"
       /\ calls[c].method = "sendAnimation"
       /\ \E k \in DOMAIN mediaCache : mediaCache[k] = calls[c].result.animation.file_id

(***************************************************************************)
(* C3  Cache hit avoids binary attachment: when has(p) is true at the time *)
(* buildFormData runs for a primary media with key p, the form carries     *)
(* under the media field only the cached identifier string, and no read    *)
(* stream or buffer for p is appended.                                     *)
(***************************************************************************)
C3_HitAvoidsBinary ==
  [][\A c \in Calls :
       (/\ Starts(c)
        /\ calls'[c].method \in SingleMethods
        /\ calls'[c].media[1].media \in DOMAIN mediaCache)
       => LET formData == calls'[c].formData
              p == calls'[c].media[1].media
          IN /\ \A i \in PartsNamed(formData, calls'[c].mediaKey) :
                  formData[i].value = Str(mediaCache[p])
             /\ Cardinality(PartsNamed(formData, calls'[c].mediaKey)) = 1
             /\ \A i \in 1..Len(formData) : formData[i].value # BinaryOf(p)]_vars

\* a video with a thumbnail is in flight; its form carries the cached
\* identifier under video while the thumbnail, not cached, is attached
C3_Witness ==
  \E c \in Calls :
    /\ calls[c].pc = "awaiting"
    /\ calls[c].method = "sendVideo"
    /\ calls[c].media[1].media \in DOMAIN mediaCache
    /\ calls[c].formData[1] = [name |-> "video", value |-> Str(mediaCache[calls[c].media[1].media])]
    /\ \E i \in PartsNamed(calls[c].formData, "thumb") : IsBinary(calls[c].formData[i].value)

\* the descriptor array a media group form carries under media
Descriptors(formData) ==
  formData[CHOOSE i \in PartsNamed(formData, "media") : TRUE].value.json.v

\* the names of the binary parts of formData
BinaryNames(formData) ==
  {formData[i].name : i \in {j \in 1..Len(formData) : IsBinary(formData[j].value)}}

\* the key of the i-th media of call record call
KeyAt(call, i) == call.media[i].media

\* the payload call holds is a cache hit for its i-th media, cached as id: the
\* identifier is embedded, and neither a binary part nor a placeholder stands
\* for that media
IsHit(call, i, id) ==
  IF call.method = "sendMediaGroup"
  THEN /\ GetProp(Descriptors(call.formData)[i], "media") = Str(id)
       /\ ToString(i - 1) \notin BinaryNames(call.formData)
       /\ \A j \in 1..Len(call.formData) : call.formData[j].value # BinaryOf(KeyAt(call, i))
  ELSE /\ call.formData[1] = [name |-> call.mediaKey, value |-> Str(id)]
       /\ \A j \in 1..Len(call.formData) : call.formData[j].value # BinaryOf(KeyAt(call, i))

(***************************************************************************)
(* C4  Closing the loop: after any successful send (single or batch) that  *)
(* included a media item with key p, every later payload built for p, by a *)
(* single send or by a batch send, is a cache hit: it embeds the cached    *)
(* identifier and attaches no binary part and no attach:// placeholder for *)
(* p.  Stated step by step: a successful send leaves all its keys cached,  *)
(* a cached key stays cached, and a payload built for a cached key is a    *)
(* hit.                                                                    *)
(***************************************************************************)
C4_ClosingTheLoop ==
  [][/\ \A c \in Calls :
          Succeeds(c) =>
            \A i \in 1..Len(calls[c].media) : KeyAt(calls[c], i) \in DOMAIN mediaCache'
     /\ \A k \in DOMAIN mediaCache : k \in DOMAIN mediaCache'
     /\ \A c \in Calls :
          Starts(c) =>
            \A i \in 1..Len(calls'[c].media) :
              KeyAt(calls'[c], i) \in DOMAIN mediaCache =>
                IsHit(calls'[c], i, mediaCache[KeyAt(calls'[c], i)])]_vars

\* after an earlier send a media group is in flight whose second descriptor
\* embeds the cached identifier of its media while the first is attached
C4_Witness ==
  \E c \in Calls :
    /\ calls[c].pc = "awaiting"
    /\ calls[c].method = "sendMediaGroup"
    /\ Len(calls[c].media) = 2
    /\ KeyAt(calls[c], 2) \in DOMAIN mediaCache
    /\ IsHit(calls[c], 2, mediaCache[KeyAt(calls[c], 2)])
    /\ "0" \in BinaryNames(calls[c].formData)

(***************************************************************************)
(* C5  Batch write-back ordering, as stated: for a batch [x0..xn-1] whose   *)
(* keys are not cached before the call and a successful response           *)
(* [m0..mn-1], after write-back lookup(xi.key) is the identifier carried   *)
(* by mi for every position i.                                             *)
(***************************************************************************)
C5_EveryPositionPaired ==
  [][\A c \in Calls :
       (/\ Succeeds(c)
        /\ calls[c].method = "sendMediaGroup"
        /\ \A i \in 1..Len(calls[c].media) : KeyAt(calls[c], i) \notin DOMAIN mediaCache)
       => \A i \in 1..Len(calls[c].media) :
            MediaCache_getMediaFileId(mediaCache', KeyAt(calls[c], i))
              = Str(CarriedFileId(calls[c].media[i].type, calls'[c].result[i]))]_vars

(***************************************************************************)
(* C5 (amended)  After write-back lookup(xi.key) is the identifier carried *)
(* by mi for every position i whose key is not cached when the response    *)
(* arrives and does not occur at an earlier position of the batch; a later *)
(* occurrence of a key keeps the identifier of the first.  The pairing is  *)
(* by position.                                                            *)
(***************************************************************************)
C5_PositionalPairing ==
  [][\A c \in Calls :
       (Succeeds(c) /\ calls[c].method = "sendMediaGroup")
       => \A i \in 1..Len(calls[c].media) :
            (/\ KeyAt(calls[c], i) \notin DOMAIN mediaCache
             /\ \A j \in 1..(i - 1) : KeyAt(calls[c], j) # KeyAt(calls[c], i))
            => MediaCache_getMediaFileId(mediaCache', KeyAt(calls[c], i))
                 = Str(CarriedFileId(calls[c].media[i].type, calls'[c].result[i]))]_vars

\* the identifier a message of a media group answer carries
GroupFileId(message) ==
  CarriedFileId(CHOOSE f \in DOMAIN message : f # "message_id", message)

\* a batch of two has completed whose messages carry different identifiers,
\* and two different keys hold them
C5_Witness ==
  \E c \in Calls :
    /\ calls[c].pc = "done"
    /\ calls[c].method = "sendMediaGroup"
    /\ Len(calls[c].result) = 2
    /\ GroupFileId(calls[c].result[1]) # GroupFileId(calls[c].result[2])
    /\ \E k1, k2 \in DOMAIN mediaCache :
         /\ k1 # k2
         /\ mediaCache[k1] = GroupFileId(calls[c].result[2])
         /\ mediaCache[k2] = GroupFileId(calls[c].result[1])

(***************************************************************************)
(* C6  Batch placeholder consistency: the descriptor array of the request  *)
(* built by sendMediaGroup has one descriptor per input item in input      *)
(* order; descriptor i's media is the cached identifier when item i's key  *)
(* is cached and attach://i otherwise; a binary part named "i" exists      *)
(* exactly when descriptor i uses attach://i and a part named "i_thumb"    *)
(* exactly when descriptor i's thumb is attach://i_thumb; there are no     *)
(* other binary parts.                                                     *)
(***************************************************************************)
C6_PlaceholderConsistency ==
  [][\A c \in Calls :
       (Starts(c) /\ calls'[c].method = "sendMediaGroup")
       => LET formData == calls'[c].formData
              mediaGroup == calls'[c].media
              descriptors == Descriptors(formData)
              name(i) == ToString(i - 1)
              thumbName(i) == ToString(i - 1) \o "_thumb"
          IN /\ Cardinality(PartsNamed(formData, "media")) = 1
             /\ Len(descriptors) = Len(mediaGroup)
             /\ \A i \in 1..Len(mediaGroup) :
                  /\ GetProp(descriptors[i], "type") = Str(mediaGroup[i].type)
                  /\ GetProp(descriptors[i], "media")
                       = IF mediaGroup[i].media \in DOMAIN mediaCache
                         THEN Str(mediaCache[mediaGroup[i].media])
                         ELSE Str("attach://" \o name(i))
                  /\ name(i) \in BinaryNames(formData)
                       <=> GetProp(descriptors[i], "media") = Str("attach://" \o name(i))
                  /\ thumbName(i) \in BinaryNames(formData)
                       <=> GetProp(descriptors[i], "thumb") = Str("attach://" \o thumbName(i))
                  /\ \A j \in PartsNamed(formData, name(i)) :
                       formData[j].value = BinaryOf(mediaGroup[i].media)
                  /\ Cardinality(PartsNamed(formData, name(i))) <= 1
                  /\ Cardinality(PartsNamed(formData, thumbName(i))) <= 1
             /\ BinaryNames(formData) \subseteq
                  {name(i) : i \in 1..Len(mediaGroup)}
                    \cup {thumbName(i) : i \in 1..Len(mediaGroup)}]_vars

\* a media group is in flight whose first item is attached as part "0" and
\* whose second item is a cache hit with an attached thumbnail "1_thumb"
C6_Witness ==
  \E c \in Calls :
    /\ calls[c].pc = "awaiting"
    /\ calls[c].method = "sendMediaGroup"
    /\ Len(calls[c].media) = 2
    /\ KeyAt(calls[c], 2) \in DOMAIN mediaCache
    /\ GetProp(Descriptors(calls[c].formData)[1], "media") = Str("attach://0")
    /\ GetProp(Descriptors(calls[c].formData)[2], "media") = Str(mediaCache[KeyAt(calls[c], 2)])
    /\ GetProp(Descriptors(calls[c].formData)[2], "thumb") = Str("attach://1_thumb")
    /\ BinaryNames(calls[c].formData) = {"0", "1_thumb"}

(***************************************************************************)
(* C7  Image response picks the largest variant: when write-back runs for  *)
(* kind photo with an uncached key and the photo field is a list of n >= 1 *)
(* entries in ascending resolution, the identifier stored is that of the   *)
(* last entry; for every other kind it is the identifier of the single     *)
(* object in the kind-named field.                                         *)
(***************************************************************************)
C7_LargestVariant ==
  [][\A c \in Calls :
       Succeeds(c) =>
         \A i \in 1..Len(calls[c].media) :
           LET key == KeyAt(calls[c], i)
               kind == IF calls[c].method = "sendMediaGroup"
                       THEN calls[c].media[i].type ELSE calls[c].mediaKey
               message == IF calls[c].method = "sendMediaGroup"
                          THEN calls'[c].result[i] ELSE calls'[c].result
           IN (/\ key \notin DOMAIN mediaCache
               /\ \A j \in 1..(i - 1) : KeyAt(calls[c], j) # key)
              => /\ key \in DOMAIN mediaCache'
                 /\ kind = "photo" =>
                      /\ Len(message.photo) >= 1
                      /\ mediaCache'[key] = message.photo[Len(message.photo)].file_id
                 /\ kind # "photo" => mediaCache'[key] = message[kind].file_id]_vars

\* a photo has been sent whose response lists two sizes with different
\* identifiers: the cache holds that of the last size and not that of the first
C7_Witness ==
  \E c \in Calls :
    /\ calls[c].pc = "done"
    /\ calls[c].method = "sendPhoto"
    /\ Len(calls[c].result.photo) = 2
    /\ calls[c].result.photo[1].file_id # calls[c].result.photo[2].file_id
    /\ Cardinality(DOMAIN mediaCache) = 1
    /\ \A k \in DOMAIN mediaCache : mediaCache[k] = calls[c].result.photo[2].file_id

(***************************************************************************)
(* C8  No write-back on failure: if a single or batch send ends in an      *)
(* error, the cache after the call equals the cache before the call; a     *)
(* batch send never leaves some of its items written back.  The steps of   *)
(* a call that ends in an error are its start and its failure: neither     *)
(* changes the cache.                                                      *)
(***************************************************************************)
C8_NoWriteBackOnFailure ==
  [][\A c \in Calls : (Starts(c) \/ Fails(c)) => mediaCache' = mediaCache]_vars

\* a media group of two failed at the remote call, a second one is still in
\* flight with both media attached: nothing was written back
C8_Witness ==
  \E c, d \in Calls :
    /\ calls[c].pc = "failed"
    /\ calls[c].method = "sendMediaGroup"
    /\ calls[c].result = Str(".callApi error")
    /\ calls[d].pc = "awaiting"
    /\ calls[d].method = "sendMediaGroup"
    /\ BinaryNames(calls[d].formData) = {"0", "1"}
    /\ mediaCache = <<>>

(***************************************************************************)
(* C9  Concurrent write-backs are safe: for any interleaving of in-flight  *)
(* sends of the same uncached key, every send that built its payload       *)
(* before the first write-back uploads the binary, the first write-back to *)
(* land fixes the cached identifier, every later write-back for that key   *)
(* leaves the cache unchanged, and no key ever maps to an identifier that  *)
(* no successful response for that key carried.                            *)
(***************************************************************************)
C9_ConcurrentWriteBacksSafe ==
  [][/\ \A c \in Calls :
          (Starts(c) /\ calls'[c].method \in SingleMethods
             /\ KeyAt(calls'[c], 1) \notin DOMAIN mediaCache)
          => calls'[c].formData[1]
               = [name |-> calls'[c].mediaKey, value |-> BinaryOf(KeyAt(calls'[c], 1))]
     /\ \A c \in Calls :
          (Succeeds(c) /\ calls[c].method \in SingleMethods)
          => IF KeyAt(calls[c], 1) \in DOMAIN mediaCache
             THEN mediaCache' = mediaCache
             ELSE mediaCache' = mediaCache @@
                    (KeyAt(calls[c], 1) :> CarriedFileId(calls[c].mediaKey, calls'[c].result))
     /\ \A k \in DOMAIN mediaCache' :
          IF k \in DOMAIN mediaCache
          THEN mediaCache'[k] = mediaCache[k]
          ELSE \E c \in Calls :
                 /\ Succeeds(c)
                 /\ \E i \in 1..Len(calls[c].media) :
                      /\ KeyAt(calls[c], i) = k
                      /\ mediaCache'[k] =
                           IF calls[c].method = "sendMediaGroup"
                           THEN GroupFileId(calls'[c].result[i])
                           ELSE CarriedFileId(calls[c].mediaKey, calls'[c].result)]_vars

\* two photo sends of the same key raced: both uploaded the binary, the
\* first write-back landed, the second send is still in flight
C9_Witness ==
  \E c, d \in Calls :
    /\ calls[c].pc = "done"
    /\ calls[c].method = "sendPhoto"
    /\ calls[d].pc = "awaiting"
    /\ calls[d].method = "sendPhoto"
    /\ KeyAt(calls[d], 1) \in DOMAIN mediaCache
    /\ IsBinary(calls[d].formData[1].value)
    /\ mediaCache[KeyAt(calls[d], 1)] = CarriedFileId("photo", calls[c].result)

(***************************************************************************)
(* C10  The cache changes only in the write-back step: an entry for key k  *)
(* is created only after a remote call that sent media with key k has      *)
(* returned successfully; cache lookups, payload construction and          *)
(* non-media calls leave the cache unchanged.                              *)
(***************************************************************************)
C10_OnlyWriteBackChangesCache ==
  [][/\ mediaCache' # mediaCache =>
          \E c \in Calls :
            /\ Succeeds(c)
            /\ calls[c].method # "getMe"
            /\ \A k \in DOMAIN mediaCache' \ DOMAIN mediaCache :
                 \E i \in 1..Len(calls[c].media) : KeyAt(calls[c], i) = k
     /\ \A c \in Calls :
          (calls'[c] # calls[c] /\ (~Succeeds(c) \/ calls[c].method = "getMe"))
          => mediaCache' = mediaCache]_vars

\* an entry exists while a getMe has completed and a media group, built from
\* a lookup of that entry, is in flight
C10_Witness ==
  \E c, d \in Calls :
    /\ calls[c].pc = "done"
    /\ calls[c].method = "getMe"
    /\ calls[d].pc = "awaiting"
    /\ calls[d].method = "sendMediaGroup"
    /\ KeyAt(calls[d], 1) \in DOMAIN mediaCache
    /\ Cardinality(DOMAIN mediaCache) = 1

\* the methods whose payload a form builder constructs
FormMethods == SingleMethods \cup {"sendMediaGroup"}

\* the keys of a configuration object
Keys(config) == {config.v[i].key : i \in 1..Len(config.v)}

\* the parts the configuration loop of the form builder appended to the form
\* of call: in a single-item form they follow the media part and the thumb
\* part; in a batch form they precede the attached binaries
ConfigParts(call) ==
  IF call.method = "sendMediaGroup"
  THEN SelectSeq(call.formData, LAMBDA part : ~IsBinary(part.value))
  ELSE SubSeq(call.formData,
              IF Truthy(GetProp(call.config, "thumb")) THEN 3 ELSE 2,
              Len(call.formData))

\* a value that is not empty/absent: neither undefined, nor null, nor ""
Populated(value) == value.t \notin {"undefined", "null"} /\ value # Str("")

\* the value a form part carries for the configuration value: its JSON text
\* when it is a structured object
Encoded(value) == IF TypeOf(value) = "object" THEN JSONstringify(value) ELSE value

(***************************************************************************)
(* C11  Field omission, as stated: for every configuration object given to *)
(* the form builders, the scalar/JSON fields appended to the form are      *)
(* exactly the configuration fields whose value is not empty/absent; a     *)
(* field whose value is undefined never appears and every populated field  *)
(* does, structured object values being appended as their JSON text.       *)
(***************************************************************************)
C11_PopulatedFieldsAppear ==
  [][\A c \in Calls :
       (Starts(c) /\ calls'[c].method \in FormMethods)
       => LET config == calls'[c].config
              parts == ConfigParts(calls'[c])
          IN /\ \A i \in 1..Len(config.v) :
                  LET named == PartsNamed(parts, config.v[i].key) IN
                  IF Populated(config.v[i].value)
                  THEN /\ Cardinality(named) = 1
                       /\ \A j \in named : parts[j].value = Encoded(config.v[i].value)
                  ELSE named = {}
             /\ \A j \in 1..Len(parts) : parts[j].name \in Keys(config)]_vars

(***************************************************************************)
(* C11 (amended)  The scalar/JSON fields appended to the form are exactly  *)
(* the configuration fields whose value is truthy: a field whose value is  *)
(* undefined, null, false, 0 or the empty string never appears, every      *)
(* other field appears once, structured object values as their JSON text.  *)
(***************************************************************************)
C11_FieldOmission ==
  [][\A c \in Calls :
       (Starts(c) /\ calls'[c].method \in FormMethods)
       => LET config == calls'[c].config
              parts == ConfigParts(calls'[c])
          IN /\ \A i \in 1..Len(config.v) :
                  LET named == PartsNamed(parts, config.v[i].key) IN
                  IF Truthy(config.v[i].value)
                  THEN /\ Cardinality(named) = 1
                       /\ \A j \in named : parts[j].value = Encoded(config.v[i].value)
                  ELSE named = {}
             /\ \A j \in 1..Len(parts) : parts[j].name \in Keys(config)]_vars

\* a photo is in flight whose configuration has an undefined duration, a
\* caption and a reply markup: the form carries the caption and the JSON text
\* of the markup and has no part for duration
C11_Witness ==
  \E c \in Calls :
    /\ calls[c].pc = "awaiting"
    /\ calls[c].method = "sendPhoto"
    /\ "duration" \in Keys(calls[c].config)
    /\ GetProp(calls[c].config, "duration") = Undefined
    /\ PartsNamed(calls[c].formData, "duration") = {}
    /\ \E i \in PartsNamed(calls[c].formData, "caption") :
         calls[c].formData[i].value = Str("hi")
    /\ \E i \in PartsNamed(calls[c].formData, "reply_markup") :
         calls[c].formData[i].value = JSONstringify(GetProp(calls[c].config, "reply_markup"))

(***************************************************************************)
(* C12  Missing credential: for every remote operation invoked on an Api   *)
(* built without a token, the operation ends in an error, no HTTP request  *)
(* is issued and the cache is unchanged.  A remote operation is a call     *)
(* that reaches callApi: every method, and the generic send whenever it    *)
(* has something to send.                                                  *)
(***************************************************************************)
C12_MissingCredential ==
  [][~Truthy(token) =>
       /\ mediaCache' = mediaCache
       /\ \A c \in Calls :
            /\ calls'[c].pc # "awaiting"
            /\ calls'[c].requests = 0
            /\ (calls[c].pc = "idle" /\ calls'[c].pc # "idle" /\ calls'[c].method # "send")
               => /\ calls'[c].pc = "failed"
                  /\ calls'[c].result
                       = Str("You can't call ." \o calls'[c].method \o " without token")]_vars

\* on an Api without a token a media group handed to send has ended in the
\* error of callApi, with no request issued and nothing cached
C12_Witness ==
  /\ ~Truthy(token)
  /\ mediaCache = <<>>
  /\ \E c \in Calls :
       /\ calls[c].pc = "failed"
       /\ calls[c].method = "sendMediaGroup"
       /\ calls[c].requests = 0
       /\ calls[c].result = Str("You can't call .sendMediaGroup without token")

\* the content send works on once a message creator is unwrapped
Inner(content) ==
  IF IsMessageCreator(content) /\ content.type = "message_send" THEN content.content
  ELSE IF IsMessageCreator(content) /\ content.type \in {"alert", "toast"} THEN content.text
  ELSE content

\* content is a supported variant: it holds a string or a media of a
\* recognised kind, or it is a location
Supported(content) ==
  \/ IsMessageCreator(content) /\ content.type = "location"
  \/ TypeOf(Inner(content)) = "string"
  \/ IsMedia(Inner(content)) /\ Inner(content).type # "media"

\* call c ends in an error before any request was issued
RaisesBeforeRequest(c) == calls'[c].pc = "failed" /\ calls'[c].requests = 0

\* call c issues its request
IssuesRequest(c) == calls'[c].pc = "awaiting" /\ calls'[c].requests = 1

(***************************************************************************)
(* C13  Caller misuse, as stated: whenever the generic send is given       *)
(* content that is not a supported variant (not a string and not one of    *)
(* the recognised media kinds), it raises an error before any network      *)
(* request is issued; it never returns without either issuing a request or *)
(* raising.                                                                *)
(***************************************************************************)
C13_UnsupportedRaises ==
  [][\A c \in Calls, content \in SendContents, chatId \in ChatIds,
        keyboard \in ConfigKeyboards, moreOptions \in MoreOptions :
       (Free(c) /\ send(c, chatId, content, keyboard, moreOptions))
       => /\ ~Supported(content) => RaisesBeforeRequest(c)
          /\ IssuesRequest(c) \/ calls'[c].pc = "failed"]_vars

(***************************************************************************)
(* C13 (amended)  Whenever the generic send is given a Media object that   *)
(* is none of the recognised media kinds, it raises an error before any    *)
(* network request is issued; given any other content that is not a string *)
(* (undefined, null, a number, a message creator that carries none), it    *)
(* returns nothing, issues no request and raises nothing; given a string,  *)
(* a recognised media or a location it issues a request or raises.         *)
(***************************************************************************)
C13_CallerMisuse ==
  [][\A c \in Calls, content \in SendContents, chatId \in ChatIds,
        keyboard \in ConfigKeyboards, moreOptions \in MoreOptions :
       (Free(c) /\ send(c, chatId, content, keyboard, moreOptions))
       => /\ mediaCache' = mediaCache
          /\ IF Supported(content)
             THEN IssuesRequest(c) \/ RaisesBeforeRequest(c)
             ELSE IF IsMedia(Inner(content))
             THEN /\ RaisesBeforeRequest(c)
                  /\ calls'[c].method = "send"
                  /\ calls'[c].result
                       = Str("Media file type is not defined. Don't use Media class, "
                               \o "use Photo, Video class instead")
             ELSE /\ calls'[c].pc = "done"
                  /\ calls'[c].requests = 0
                  /\ calls'[c].result = Undefined]_vars

\* on an Api with a token, send was given a Media of no class and has ended
\* in the error of send, with no request issued
C13_Witness ==
  /\ Truthy(token)
  /\ \E c \in Calls :
       /\ calls[c].pc = "failed"
       /\ calls[c].method = "send"
       /\ calls[c].content = BareMedia(1)
       /\ calls[c].requests = 0

\* the answer call c received has a success status and a payload that
\* reports a failure
FailurePayload(call) ==
  /\ call.response # Undefined
  /\ call.response.status = 200
  /\ ~call.response.data.ok

(***************************************************************************)
(* C14  Remote-reported error: when the transport returns a success HTTP   *)
(* status but the remote payload indicates failure, the call aborts with   *)
(* one descriptive error that carries the payload's description text, and  *)
(* no write-back happens.                                                  *)
(***************************************************************************)
C14_RemoteReportedError ==
  [][\A c \in Calls :
       (calls[c].pc = "awaiting" /\ FailurePayload(calls'[c]))
       => /\ calls'[c].pc = "failed"
          /\ calls'[c].result
               = Str(".callApi error: " \o calls'[c].response.data.description)
          /\ mediaCache' = mediaCache]_vars

(***************************************************************************)
(* C15  One round trip, no retry: every top-level call (single send, batch *)
(* send or plain method call) issues at most one HTTP request over its     *)
(* whole life, also when that request fails, and then finishes with the    *)
(* result or with the error; a failed request is never followed by a       *)
(* second request of the same call.                                        *)
(***************************************************************************)
C15_OneRoundTrip ==
  [][\A c \in Calls :
       /\ calls'[c].requests <= 1
       /\ calls[c].pc = "awaiting"
          => /\ calls'[c].pc \in {"awaiting", "done", "failed"}
             /\ calls'[c].requests = calls[c].requests
       /\ calls[c].pc \in {"done", "failed"}
          => \/ calls'[c].pc = calls[c].pc /\ calls'[c].requests = calls[c].requests
             \/ calls'[c].pc = "idle"]_vars

\* a text message whose only request was rejected has finished with the error
C15_Witness ==
  \E c \in Calls :
    /\ calls[c].pc = "failed"
    /\ calls[c].method = "sendMessage"
    /\ calls[c].requests = 1
    /\ calls[c].result = Str(".callApi error")

(***************************************************************************)
(* C16  Single-item thumbnail: when the configuration given to             *)
(* buildFormData has a thumbnail, the form holds exactly one part named    *)
(* thumb, the thumbnail's cached identifier string if its key is cached    *)
(* and its binary otherwise; the thumbnail is not among the fields         *)
(* appended by the later scalar/JSON step.                                 *)
(***************************************************************************)
C16_SingleThumbPart ==
  [][\A c \in Calls :
       (/\ Starts(c)
        /\ calls'[c].method \in SingleMethods
        /\ Truthy(GetProp(calls'[c].config, "thumb")))
       => LET formData == calls'[c].formData
              thumb == GetProp(calls'[c].config, "thumb")
              named == PartsNamed(formData, "thumb")
          IN /\ Cardinality(named) = 1
             /\ \A i \in named :
                  formData[i].value = IF thumb.media \in DOMAIN mediaCache
                                      THEN Str(mediaCache[thumb.media])
                                      ELSE BinaryOf(thumb.media)
             /\ PartsNamed(ConfigParts(calls'[c]), "thumb") = {}]_vars

\* the thumbnail of the i-th media of call, and the name of the form part
\* that carries it
ThumbAt(call, i) == call.media[i].thumb
ThumbPartName(call, i) ==
  IF call.method = "sendMediaGroup" THEN ToString(i - 1) \o "_thumb" ELSE "thumb"

(***************************************************************************)
(* C17  Thumbnails are never written back: after any sequence of           *)
(* successful single and batch sends, a key that was only ever used as a   *)
(* thumbnail (never as a primary media) is absent from the cache, so every *)
(* send carrying that thumbnail attaches its binary again; write-back      *)
(* stores only under the key of the primary media of the sent item.        *)
(* Stated step by step: the cache, empty at first, changes only when a     *)
(* send succeeds and gains only keys of primary media of that send; a      *)
(* thumbnail key of the send that is not one of its primary keys stays     *)
(* absent; and a payload built for a thumbnail whose key is absent carries *)
(* the thumbnail's binary.                                                 *)
(***************************************************************************)
C17_ThumbnailsNotWrittenBack ==
  [][/\ mediaCache' # mediaCache => \E c \in Calls : Succeeds(c)
     /\ \A c \in Calls :
          Succeeds(c) =>
            /\ \A k \in DOMAIN mediaCache' \ DOMAIN mediaCache :
                 \E i \in 1..Len(calls[c].media) : KeyAt(calls[c], i) = k
            /\ \A i \in 1..Len(calls[c].media) :
                 (/\ Truthy(ThumbAt(calls[c], i))
                  /\ ThumbAt(calls[c], i).media \notin DOMAIN mediaCache
                  /\ \A j \in 1..Len(calls[c].media) :
                       KeyAt(calls[c], j) # ThumbAt(calls[c], i).media)
                 => ThumbAt(calls[c], i).media \notin DOMAIN mediaCache'
     /\ \A c \in Calls :
          Starts(c) =>
            \A i \in 1..Len(calls'[c].media) :
              (/\ Truthy(ThumbAt(calls'[c], i))
               /\ ThumbAt(calls'[c], i).media \notin DOMAIN mediaCache)
              => \E j \in PartsNamed(calls'[c].formData, ThumbPartName(calls'[c], i)) :
                   calls'[c].formData[j].value = BinaryOf(ThumbAt(calls'[c], i).media)]_vars

\* after a successful send an audio is in flight whose media is a cache hit
\* and whose thumbnail, under another key, is attached as binary: the cache
\* holds the key of the media only
C17_Witness ==
  \E c \in Calls :
    /\ calls[c].pc = "awaiting"
    /\ calls[c].method = "sendAudio"
    /\ DOMAIN mediaCache = {KeyAt(calls[c], 1)}
    /\ Truthy(ThumbAt(calls[c], 1))
    /\ ThumbAt(calls[c], 1).media # KeyAt(calls[c], 1)
    /\ calls[c].formData[1] = [name |-> "audio", value |-> Str(mediaCache[KeyAt(calls[c], 1)])]
    /\ calls[c].formData[2] = [name |-> "thumb", value |-> BinaryOf(ThumbAt(calls[c], 1).media)]

\* the configuration values that are falsy without being undefined or null
FalsyValues == {Bool(FALSE), Num(0), Str("")}

(***************************************************************************)
(* C18  Falsy configuration values are dropped: in both form builders a    *)
(* configuration field whose value is false, 0 or the empty string is      *)
(* omitted from the form exactly as an undefined or null field is, so the  *)
(* set of appended fields is the set of keys with a truthy value.          *)
(***************************************************************************)
C18_FalsyValuesDropped ==
  [][\A c \in Calls :
       (Starts(c) /\ calls'[c].method \in FormMethods)
       => LET config == calls'[c].config
              parts == ConfigParts(calls'[c])
          IN /\ \A k \in Keys(config) :
                  GetProp(config, k) \in FalsyValues \cup {Undefined, Null}
                    => PartsNamed(parts, k) = {}
             /\ {parts[j].name : j \in 1..Len(parts)}
                  = {k \in Keys(config) : Truthy(GetProp(config, k))}]_vars

\* a media group is in flight whose configuration has chat_id 0: its form has
\* the media descriptors and no chat_id
C18_Witness ==
  \E c \in Calls :
    /\ calls[c].pc = "awaiting"
    /\ calls[c].method = "sendMediaGroup"
    /\ GetProp(calls[c].config, "chat_id") = Num(0)
    /\ PartsNamed(calls[c].formData, "chat_id") = {}
    /\ PartsNamed(calls[c].formData, "media") # {}

====
